---- MODULE Spec2Model ----
(***************************************************************************)
(* The five example scripts of ds.js that build a model and export it:     *)
(*   text          agents/model-architect/examples/create-model.py         *)
(*   image         agents/model-architect/examples/models/                 *)
(*                 image_classification/create_model.py                    *)
(*   tabular       scripts/create_onnx_model.py                            *)
(*   mipro_create  examples/MIPROv2/create-model.py                        *)
(*   mipro_train   examples/MIPROv2/train-model.py                         *)
(* A script is a straight line of statements run by one interpreter in a   *)
(* working directory.  The state is the working directory (its             *)
(* directories and files), the running script and its position, and what   *)
(* the run has done so far.  TextDataset.__getitem__ and train_model of     *)
(* train-model.py are modelled in detail in parts of their own.            *)
(***************************************************************************)
EXTENDS Integers, Sequences, FiniteSets, TLC

VARIABLES
    dirs,        \* the sub-directories of the working directory that exist
    files,       \* path -> the file's content (kind "absent": no such file)
    script,      \* the script of the current (or last) run, "none" before any
    pc,          \* index of the next statement of the script
    status,      \* "idle" | "running" | "exited" | "crashed"
    err,         \* the exception that ended the run, "none" otherwise
    log,         \* the statements this run attempted: <<[pc, ok]>>
    stdout,      \* the lines this run printed
    weights,     \* the model parameters this run holds (0: none / not random)
    dummy,       \* the random dummy input this run drew (0: none)
    n_features,  \* create_onnx_model.py's n_features (0 before it is set)
    runs,        \* how many runs were started
    prevScript,  \* the script of the run before this one
    startDirs,   \* dirs when this run started
    startFiles,  \* files when this run started
    writers,     \* path -> the scripts that wrote it so far
    ds,          \* TextDataset part: the dataset object and the last result
    tr           \* train_model part: the frame of one call

vars == <<dirs, files, script, pc, status, err, log, stdout, weights, dummy,
          n_features, runs, prevScript, startDirs, startFiles, writers, ds, tr>>

scriptVars == <<dirs, files, script, pc, status, err, log, stdout, weights,
                dummy, n_features, runs, prevScript, startDirs, startFiles,
                writers>>

(***************************************************************************)
(* Bounds of the model.                                                    *)
(***************************************************************************)
\* runs of scripts in one working directory
MaxRuns == 2
\* distinct outcomes of an unseeded random draw (weight init, randn, shuffle)
NumSeeds == 2

Seeds == 1..NumSeeds

Min(a, b) == IF a <= b THEN a ELSE b
Max(a, b) == IF a >= b THEN a ELSE b

(***************************************************************************)
(* The scripts and the paths they name.                                    *)
(***************************************************************************)
Scripts == {"text", "image", "tabular", "mipro_create", "mipro_train"}

Paths == {"models/text-generation.onnx", "model.onnx", "metadata.json",
          "models/text-classifier.onnx", "models/feature_names.txt",
          "models/miprov2-model.onnx"}

\* The directory a relative path lies in ("." is the working directory).
Parent(p) == IF p \in {"model.onnx", "metadata.json"} THEN "." ELSE "models"

DirExists(d, ds_) == d = "." \/ d \in ds_


(***************************************************************************)
(* File contents.  Every file is a record of one shape:                    *)
(*   kind    "absent" (no file), "empty" (zero bytes), "stale" (left by    *)
(*           something before the first run), "onnx", "text", "json",      *)
(*           "partial" (the start of a file whose write failed)            *)
(*   model   the name of the serialized graph                              *)
(*   weights the parameters stored in the graph                            *)
(*   width   the declared width of the graph's input                       *)
(*   nodes   the graph's nodes, where the script builds them by hand       *)
(*   data    the characters of a text file                                 *)
(***************************************************************************)
File(k, m, w, n, nd, d) ==
    [kind |-> k, model |-> m, weights |-> w, width |-> n, nodes |-> nd, data |-> d]

Absent == File("absent", "", 0, 0, <<>>, <<>>)
Empty == File("empty", "", 0, 0, <<>>, <<>>)
Stale == File("stale", "", 0, 0, <<>>, <<"o", "l", "d">>)

NonEmpty(f) == f.kind \notin {"absent", "empty"}

Existing(fs) == {p \in Paths : fs[p].kind # "absent"}

(***************************************************************************)
(* create-model.py (text): the graph create_text_model builds, and what an *)
(* ONNX runtime computes from it.  A tensor of shape [n] is a sequence of  *)
(* n strings; a string is a sequence of characters.                        *)
(***************************************************************************)
\* helper.make_node('Concat', inputs=['input'], outputs=['output'], axis=0)
text_node == [op |-> "Concat", inputs |-> <<"input">>, outputs |-> <<"output">>, axis |-> 0]

\* helper.make_graph([node], 'text-generation', [input], [output]): no initializer
text_graph ==
    [name |-> "text-generation", nodes |-> <<text_node>>,
     inputs |-> <<"input">>, outputs |-> <<"output">>, initializers |-> <<>>]

RECURSIVE ConcatAxis0(_)
\* ONNX Concat along axis 0 of rank-1 tensors: the tensors one after another.
ConcatAxis0(tensors) ==
    IF tensors = <<>> THEN <<>>
    ELSE Head(tensors) \o ConcatAxis0(Tail(tensors))

\* One node applied to the values bound so far.
RunNode(node, env) ==
    LET args == [i \in 1..Len(node.inputs) |-> env[node.inputs[i]]]
    IN  [n \in DOMAIN env \cup {node.outputs[1]} |->
            IF n = node.outputs[1] THEN ConcatAxis0(args) ELSE env[n]]

RECURSIVE RunNodes(_, _)
RunNodes(nodes, env) ==
    IF nodes = <<>> THEN env
    ELSE RunNodes(Tail(nodes), RunNode(Head(nodes), env))

\* The graph's output tensor for the input tensor x.
RunGraph(g, x) ==
    LET env0 == [n \in {g.inputs[1]} |-> x]
    IN  RunNodes(g.nodes, env0)[g.outputs[1]]

\* The constant tensors a graph holds (its initializers).
GraphConstants(g) == {g.initializers[i] : i \in 1..Len(g.initializers)}

(***************************************************************************)
(* create_onnx_model.py (tabular): the data and CountVectorizer.           *)
(***************************************************************************)
texts == <<
    <<"T", "h", "i", "s", " ", "i", "s", " ", "g", "r", "e", "a", "t">>,
    <<"I", " ", "l", "o", "v", "e", " ", "i", "t">>,
    <<"A", "m", "a", "z", "i", "n", "g", " ", "p", "r", "o", "d", "u", "c", "t">>,
    <<"T", "h", "i", "s", " ", "i", "s", " ", "t", "e", "r", "r", "i", "b", "l", "e">>,
    <<"I", " ", "h", "a", "t", "e", " ", "i", "t">>,
    <<"P", "o", "o", "r", " ", "q", "u", "a", "l", "i", "t", "y">> >>

labels == <<1, 1, 1, 0, 0, 0>>

\* CountVectorizer(max_features=100)
max_features == 100

UpperCase == <<"A", "B", "C", "D", "E", "F", "G", "H", "I", "J", "K", "L", "M",
               "N", "O", "P", "Q", "R", "S", "T", "U", "V", "W", "X", "Y", "Z">>
\* The word characters in code order: digits, "_", lower-case letters.
WordChars == <<"0", "1", "2", "3", "4", "5", "6", "7", "8", "9", "_",
               "a", "b", "c", "d", "e", "f", "g", "h", "i", "j", "k", "l", "m",
               "n", "o", "p", "q", "r", "s", "t", "u", "v", "w", "x", "y", "z">>

Range(q) == {q[i] : i \in 1..Len(q)}
IndexIn(q, x) == CHOOSE i \in 1..Len(q) : q[i] = x

\* str.lower() of one character (CountVectorizer's lowercase=True).
LowerChar(c) == IF c \in Range(UpperCase) THEN WordChars[11 + IndexIn(UpperCase, c)] ELSE c
Lower(s) == [i \in 1..Len(s) |-> LowerChar(s[i])]

\* \w of the token pattern, on lower-cased text.
IsWordChar(c) == c \in Range(WordChars)

\* The shortest token the default token_pattern (?u)\b\w\w+\b matches.
MinTokenLen == 2

RECURSIVE Scan(_, _, _)
\* The runs of word characters of s, in order; cur is the run being read.
Scan(s, cur, acc) ==
    IF s = <<>> THEN (IF cur = <<>> THEN acc ELSE Append(acc, cur))
    ELSE IF IsWordChar(Head(s)) THEN Scan(Tail(s), Append(cur, Head(s)), acc)
    ELSE Scan(Tail(s), <<>>, IF cur = <<>> THEN acc ELSE Append(acc, cur))

\* Mutant of Tokenize: the pattern \w+ keeps one-character tokens.
Tokenize_short(s) == Scan(Lower(s), <<>>, <<>>)

\* CountVectorizer's analyzer: lower-case, then the tokens of 2 or more characters.
Tokenize(s) == SelectSeq(Scan(Lower(s), <<>>, <<>>), LAMBDA t : Len(t) >= MinTokenLen)

\* How often term t occurs in the corpus.
TermCount(t, docs) ==
    LET RECURSIVE Sum(_)
        Sum(i) == IF i = 0 THEN 0
                  ELSE Sum(i - 1) + Cardinality({j \in 1..Len(Tokenize(docs[i])) :
                                                    Tokenize(docs[i])[j] = t})
    IN  Sum(Len(docs))

\* The vocabulary fit learns: every term, cut to the max_features most frequent.
Vocabulary(docs) ==
    LET all == UNION {Range(Tokenize(docs[i])) : i \in 1..Len(docs)}
    IN  IF Cardinality(all) <= max_features THEN all
        ELSE CHOOSE V \in SUBSET all :
                /\ Cardinality(V) = max_features
                /\ \A t \in V, u \in all \ V : TermCount(t, docs) >= TermCount(u, docs)

RECURSIVE LexLess(_, _)
\* a sorts strictly before b (Python's str order on word characters).
LexLess(a, b) ==
    IF b = <<>> THEN FALSE
    ELSE IF a = <<>> THEN TRUE
    ELSE IF Head(a) # Head(b) THEN IndexIn(WordChars, Head(a)) < IndexIn(WordChars, Head(b))
    ELSE LexLess(Tail(a), Tail(b))

RECURSIVE SortTerms(_)
SortTerms(S) ==
    IF S = {} THEN <<>>
    ELSE LET m == CHOOSE x \in S : \A y \in S : x = y \/ LexLess(x, y)
         IN  <<m>> \o SortTerms(S \ {m})

\* pipeline.named_steps['vectorizer'].get_feature_names_out()
feature_names == SortTerms(Vocabulary(texts))

RECURSIVE Join(_, _)
\* sep.join(names), as characters
Join(sep, names) ==
    IF names = <<>> THEN <<>>
    ELSE IF Len(names) = 1 THEN names[1]
    ELSE names[1] \o <<sep>> \o Join(sep, Tail(names))

RECURSIVE SplitAcc(_, _, _, _)
SplitAcc(sep, s, cur, acc) ==
    IF s = <<>> THEN Append(acc, cur)
    ELSE IF Head(s) = sep THEN SplitAcc(sep, Tail(s), <<>>, Append(acc, cur))
    ELSE SplitAcc(sep, Tail(s), Append(cur, Head(s)), acc)

\* s.split(sep): what a reader of the side file gets back
Split(sep, s) == SplitAcc(sep, s, <<>>, <<>>)


(***************************************************************************)
(* The scripts as statement lists.  A statement is                         *)
(*   kind  "call" (library calls that touch no file), "mkdir", "write",    *)
(*         "print"                                                         *)
(*   path  the directory or file a mkdir / write names                     *)
(*   uses  the global names the statement reads when it runs               *)
(*   rand  what it draws from the unseeded generator: "weights", "dummy"   *)
(*         or "none"                                                       *)
(*   tag   what the statement is, for the ones the properties name         *)
(***************************************************************************)
Stmt(k, p, u, r, t) == [kind |-> k, path |-> p, uses |-> u, rand |-> r, tag |-> t]

\* agents/model-architect/examples/create-model.py: create_text_model()
text_program == <<
    Stmt("call", "", {"helper", "TensorProto"}, "none", "make_model"),
    Stmt("write", "models/text-generation.onnx", {"onnx"}, "none", "save") >>

\* agents/model-architect/examples/models/image_classification/create_model.py
image_program == <<
    Stmt("call", "", {"Model", "nn", "undefined"}, "weights", "Model"),
    Stmt("call", "", {"torch"}, "dummy", "randn"),
    Stmt("write", "model.onnx", {"torch", "model", "x"}, "none", "export"),
    Stmt("write", "metadata.json", {"open", "json"}, "none", "metadata") >>

\* scripts/create_onnx_model.py
tabular_program == <<
    Stmt("call", "", {"pipeline", "texts", "labels"}, "none", "fit"),
    Stmt("call", "", {"pipeline", "len"}, "none", "features"),
    Stmt("call", "", {"skl2onnx", "FloatTensorType", "pipeline", "n_features", "type"},
         "none", "convert"),
    Stmt("mkdir", "models", {"os"}, "none", "makedirs"),
    Stmt("write", "models/text-classifier.onnx", {"open", "onx"}, "none", "save_model"),
    Stmt("write", "models/feature_names.txt", {"open", "feature_names"}, "none", "save_names"),
    Stmt("print", "", {"print"}, "none", "saved"),
    Stmt("print", "", {"print", "n_features"}, "none", "count") >>

\* examples/MIPROv2/create-model.py: create_onnx_model()
mipro_create_program == <<
    Stmt("call", "", {"SimpleTextGenerator"}, "weights", "Model"),
    Stmt("call", "", {"torch"}, "dummy", "randn"),
    Stmt("write", "models/text-generation.onnx", {"export"}, "none", "export"),
    Stmt("print", "", {"print"}, "none", "created") >>

\* train_model(train_data, epochs=10, batch_size=32): main() passes neither
epochs == 10

\* The line train_model prints after each epoch (the loss itself left out).
EpochLines == <<"Epoch 1/10", "Epoch 2/10", "Epoch 3/10", "Epoch 4/10", "Epoch 5/10",
                "Epoch 6/10", "Epoch 7/10", "Epoch 8/10", "Epoch 9/10", "Epoch 10/10">>

\* Epoch i of train_model on main()'s three pairs (one batch of 3 < 32):
\* zero_grad, forward, backward, step over the shuffled batch, then the report.
train_epoch(i) == <<
    Stmt("call", "", {"range"}, "weights", "epoch"),
    Stmt("print", "", {"print", "len"}, "none", EpochLines[i]) >>

RECURSIVE train_epochs(_)
\* for epoch in range(k)
train_epochs(k) == IF k = 0 THEN <<>> ELSE train_epochs(k - 1) \o train_epoch(k)

\* examples/MIPROv2/train-model.py: main(), with train_model and export_to_onnx
\* laid out statement by statement
mipro_train_program ==
    << Stmt("call", "", {"train_model", "zip", "TextDataset", "DataLoader",
                         "MIPROv2Model", "nn", "optim"}, "weights", "setup"),
       Stmt("print", "", {"print"}, "none", "Starting training...") >>
    \o train_epochs(epochs)
    \o << Stmt("print", "", {"print"}, "none", "Training completed"),
          Stmt("call", "", {"export_to_onnx", "torch"}, "dummy", "randn"),
          Stmt("write", "models/miprov2-model.onnx", {"export"}, "none", "export"),
          Stmt("print", "", {"print"}, "none", "Model exported to models/miprov2-model.onnx") >>

Program(s) ==
    CASE s = "text" -> text_program
      [] s = "image" -> image_program
      [] s = "tabular" -> tabular_program
      [] s = "mipro_create" -> mipro_create_program
      [] s = "mipro_train" -> mipro_train_program
      [] OTHER -> <<>>

\* The names Python's builtins module binds, of those the scripts use.
Builtins == {"print", "open", "len", "type", "zip", "range", "ord"}

\* The names each script's module binds (import, def, class, assignment).
Globals(s) ==
    CASE s = "text" -> {"onnx", "helper", "TensorProto", "create_text_model"}
      [] s = "image" -> {"torch", "nn", "Model", "model", "x", "json"}
      [] s = "tabular" -> {"np", "Pipeline", "CountVectorizer", "LogisticRegression",
                           "skl2onnx", "FloatTensorType", "texts", "labels", "pipeline",
                           "feature_names", "n_features", "initial_type", "onx", "os"}
      [] s = "mipro_create" -> {"torch", "nn", "export", "SimpleTextGenerator",
                                "create_onnx_model"}
      [] s = "mipro_train" -> {"torch", "nn", "optim", "Dataset", "DataLoader", "export",
                               "np", "TextDataset", "MIPROv2Model", "train_model",
                               "export_to_onnx", "main"}
      [] OTHER -> {}

\* Mutant of Unbound: the placeholder resolves like any other name.
Unbound_resolved(s, st) == {}

\* The names statement st of script s reads that nothing binds: each is a NameError.
Unbound(s, st) == st.uses \ (Globals(s) \cup Builtins)

\* A text file holding the characters d.
TextFile(d) == IF d = <<>> THEN Empty ELSE File("text", "", 0, 0, <<>>, d)

\* What script s writes to path p, holding weights w and n_features nf.
Output(s, p, w, nf) ==
    CASE s = "text" -> File("onnx", text_graph.name, 0, 1, text_graph.nodes, <<>>)
      [] s = "image" /\ p = "model.onnx" -> File("onnx", "Model", w, 3, <<>>, <<>>)
      [] s = "image" /\ p = "metadata.json" ->
            File("json", "image_classification", 0, 0, <<>>, <<>>)
      [] s = "tabular" /\ p = "models/text-classifier.onnx" ->
            File("onnx", "text_classifier", 0, nf, <<>>, <<>>)
      [] s = "tabular" /\ p = "models/feature_names.txt" ->
            TextFile(Join("\n", feature_names))
      [] s = "mipro_create" -> File("onnx", "SimpleTextGenerator", w, 256, <<>>, <<>>)
      [] s = "mipro_train" -> File("onnx", "MIPROv2Model", w, 128, <<>>, <<>>)
      [] OTHER -> Empty

\* The file each script is there to produce.
OutputPath(s) ==
    CASE s = "text" -> "models/text-generation.onnx"
      [] s = "image" -> "model.onnx"
      [] s = "tabular" -> "models/text-classifier.onnx"
      [] s = "mipro_create" -> "models/text-generation.onnx"
      [] s = "mipro_train" -> "models/miprov2-model.onnx"

\* What is left of a write of f that failed after k characters; a serialized
\* graph's bytes are not modelled, so its k is 0 (none) or 1 (some).
Part(f, k) ==
    IF k = 0 THEN Empty
    ELSE [f EXCEPT !.kind = "partial", !.data = SubSeq(f.data, 1, Min(k, Len(f.data)))]

\* How far a failing write of f can get: short of all of it.
PartLens(f) == IF f.data = <<>> THEN {0, 1} ELSE 0..(Len(f.data) - 1)

\* Mutant of OpenForWrite: the file is opened for appending.
OpenForWrite_append(old, new) ==
    IF old.kind = "absent" THEN new
    ELSE [new EXCEPT !.data = old.data \o new.data, !.weights = old.weights + new.weights]

\* open(path, "w" / "wb") and one write: the old content is gone.
OpenForWrite(old, new) == new

\* Mutant of AfterRaise: the error is swallowed and the script goes on.
AfterRaise_swallow(at) == [status |-> "running", pc |-> at + 1]

\* No script has a try: an exception raised by statement `at` ends the run there.
AfterRaise(at) == [status |-> "crashed", pc |-> at]


(***************************************************************************)
(* Running a script: python <script>, one statement at a time.             *)
(***************************************************************************)
NoFiles == [p \in Paths |-> Absent]

\* The TextDataset and train_model parts at rest.
DsIdle ==
    [pc |-> "idle", texts |-> <<>>, contexts |-> <<>>, max_length |-> 0,
     idx |-> 0, tokens |-> <<>>, target |-> <<>>]
TrIdle ==
    [pc |-> "idle", n |-> 0, epochs |-> 0, batch_size |-> 0, epoch |-> 0,
     batches |-> <<>>, batch |-> <<>>, seen |-> <<>>, model |-> FALSE,
     optimizer |-> FALSE, ops |-> <<>>, printed |-> 0]

\* The working directory before the first run: fresh, or with a models/
\* directory, empty or holding files of an earlier use.
InitScripts ==
    /\ \E d \in {"fresh", "models", "used"} :
          /\ dirs = (IF d = "fresh" THEN {} ELSE {"models"})
          /\ files = (IF d = "used" THEN [p \in Paths |-> Stale] ELSE NoFiles)
    /\ script = "none"
    /\ pc = 0
    /\ status = "idle"
    /\ err = "none"
    /\ log = <<>>
    /\ stdout = <<>>
    /\ weights = 0
    /\ dummy = 0
    /\ n_features = 0
    /\ runs = 0
    /\ prevScript = "none"
    /\ startDirs = dirs
    /\ startFiles = files
    /\ writers = [p \in Paths |-> {}]
    /\ ds = DsIdle
    /\ tr = TrIdle

ghostVars == <<runs, prevScript, startDirs, startFiles>>
localVars == <<weights, dummy, n_features>>

\* The statement about to run.
Cur == Program(script)[pc]

\* A statement of kind k is about to run, and every name it reads is bound.
At(k) ==
    /\ status = "running"
    /\ pc \in 1..Len(Program(script))
    /\ Cur.kind = k
    /\ Unbound(script, Cur) = {}

\* The statement ran to its end: on to the next one.
Succeed ==
    /\ log' = Append(log, [pc |-> pc, ok |-> TRUE])
    /\ pc' = pc + 1
    /\ UNCHANGED <<script, status, err>>

\* The statement raised e.
Raise(e) ==
    /\ log' = Append(log, [pc |-> pc, ok |-> FALSE])
    /\ status' = AfterRaise(pc).status
    /\ pc' = AfterRaise(pc).pc
    /\ err' = e
    /\ UNCHANGED script

\* python <script> in the working directory, with no arguments.
StartRun(s) ==
    /\ status # "running"
    /\ runs < MaxRuns
    /\ script' = s
    /\ pc' = 1
    /\ status' = "running"
    /\ err' = "none"
    /\ log' = <<>>
    /\ stdout' = <<>>
    /\ weights' = 0
    /\ dummy' = 0
    /\ n_features' = 0
    /\ runs' = runs + 1
    /\ prevScript' = script
    /\ startDirs' = dirs
    /\ startFiles' = files
    /\ UNCHANGED <<dirs, files, writers, ds, tr>>

\* A statement reads a name nothing binds (create_model.py: `undefined`).
RaiseNameError ==
    /\ status = "running"
    /\ pc \in 1..Len(Program(script))
    /\ Unbound(script, Cur) # {}
    /\ Raise("NameError")
    /\ UNCHANGED <<dirs, files, stdout, writers, ds, tr>>
    /\ UNCHANGED localVars
    /\ UNCHANGED ghostVars

\* Library calls that build, train or convert a model.  Weight initialisation,
\* torch.randn and the DataLoader's shuffle draw from an unseeded generator.
ExecCall ==
    /\ At("call")
    /\ \E r \in Seeds :
          /\ weights' = (IF Cur.rand = "weights" THEN r ELSE weights)
          /\ dummy' = (IF Cur.rand = "dummy" THEN r ELSE dummy)
    /\ n_features' = (IF Cur.tag = "features" THEN Len(feature_names) ELSE n_features)
    /\ Succeed
    /\ UNCHANGED <<dirs, files, stdout, writers, ds, tr>>
    /\ UNCHANGED ghostVars

\* os.makedirs('models', exist_ok=True)
ExecMakedirs ==
    /\ At("mkdir")
    /\ dirs' = dirs \cup {Cur.path}
    /\ Succeed
    /\ UNCHANGED <<files, stdout, writers, ds, tr>>
    /\ UNCHANGED localVars
    /\ UNCHANGED ghostVars

\* onnx.save / torch.onnx.export / open(..., "w") and write, in a directory that exists.
ExecWrite ==
    /\ At("write")
    /\ DirExists(Parent(Cur.path), dirs)
    /\ files' = [files EXCEPT ![Cur.path] =
                    OpenForWrite(@, Output(script, Cur.path, weights, n_features))]
    /\ writers' = [writers EXCEPT ![Cur.path] = @ \cup {script}]
    /\ Succeed
    /\ UNCHANGED <<dirs, stdout, ds, tr>>
    /\ UNCHANGED localVars
    /\ UNCHANGED ghostVars

\* The same in a directory that does not exist: open() raises FileNotFoundError.
ExecWriteNoDir ==
    /\ At("write")
    /\ ~DirExists(Parent(Cur.path), dirs)
    /\ Raise("FileNotFoundError")
    /\ UNCHANGED <<dirs, files, stdout, writers, ds, tr>>
    /\ UNCHANGED localVars
    /\ UNCHANGED ghostVars

\* print(...)
ExecPrint ==
    /\ At("print")
    /\ stdout' = Append(stdout, Cur.tag)
    /\ Succeed
    /\ UNCHANGED <<dirs, files, writers, ds, tr>>
    /\ UNCHANGED localVars
    /\ UNCHANGED ghostVars

\* The last statement is done: the interpreter exits with status 0.
Exit ==
    /\ status = "running"
    /\ pc = Len(Program(script)) + 1
    /\ status' = "exited"
    /\ UNCHANGED <<dirs, files, script, pc, err, log, stdout, writers, ds, tr>>
    /\ UNCHANGED localVars
    /\ UNCHANGED ghostVars

\* A library call fails (out of memory, a shape mismatch, a conversion error).
FaultCall ==
    /\ At("call")
    /\ Raise("LibraryError")
    /\ UNCHANGED <<dirs, files, stdout, writers, ds, tr>>
    /\ UNCHANGED localVars
    /\ UNCHANGED ghostVars

\* os.makedirs fails (no permission, a file named models).
FaultMakedirs ==
    /\ At("mkdir")
    /\ Raise("OSError")
    /\ UNCHANGED <<dirs, files, stdout, writers, ds, tr>>
    /\ UNCHANGED localVars
    /\ UNCHANGED ghostVars

\* A write fails: before the file is opened (serialization, no permission),
\* after open truncated it and before a byte is written, or part-way through
\* (the disk is full, a file size limit), which leaves the first k characters.
FaultWrite ==
    /\ At("write")
    /\ LET new == Output(script, Cur.path, weights, n_features)
       IN  \/ UNCHANGED <<files, writers>>
           \/ /\ DirExists(Parent(Cur.path), dirs)
              /\ \E k \in PartLens(new) :
                    files' = [files EXCEPT ![Cur.path] = Part(new, k)]
              /\ writers' = [writers EXCEPT ![Cur.path] = @ \cup {script}]
    /\ Raise("OSError")
    /\ UNCHANGED <<dirs, stdout, ds, tr>>
    /\ UNCHANGED localVars
    /\ UNCHANGED ghostVars

NextScripts ==
    \/ \E s \in Scripts : StartRun(s)
    \/ RaiseNameError
    \/ ExecCall
    \/ ExecMakedirs
    \/ ExecWrite
    \/ ExecWriteNoDir
    \/ ExecPrint
    \/ Exit

NextFaults ==
    \/ NextScripts
    \/ FaultCall
    \/ FaultMakedirs
    \/ FaultWrite

\* The scripts where only the code's own errors occur.
Spec == InitScripts /\ [][NextScripts]_vars

\* The scripts where any library call, mkdir or write may fail as well.
SpecFaults == InitScripts /\ [][NextFaults]_vars


(***************************************************************************)
(* Properties of the scripts.                                              *)
(***************************************************************************)
Finished == status \in {"exited", "crashed"}

\* The run started in a fresh working directory: no models/, no files.
FreshStart == startDirs = {} /\ startFiles = NoFiles

\* Statement i of the current script ran to its end in this run.
Ran(i) == i <= Len(log) /\ log[i].ok

\* The statement tagged t ran to its end in this run.
RanTag(t) == \E i \in 1..Len(log) : log[i].ok /\ Program(script)[i].tag = t

\* C1: every script, run with no arguments in a fresh working directory (no
\* models/), runs to completion and leaves a non-empty file at its output path.
C1_FreshRunProducesOutput ==
    (Finished /\ FreshStart) =>
        (status = "exited" /\ NonEmpty(files[OutputPath(script)]))

\* C2: the image-classification script never runs to completion: Model()
\* raises a NameError on `undefined` before the export and the metadata write,
\* so no run creates or modifies model.onnx or metadata.json.
C2_ImageNeverCompletes ==
    /\ script = "image" =>
          /\ status # "exited"
          /\ pc = 1
          /\ status = "crashed" => (err = "NameError" /\ log = <<[pc |-> 1, ok |-> FALSE]>>)
          /\ weights = 0 /\ dummy = 0
          /\ files["model.onnx"] = startFiles["model.onnx"]
          /\ files["metadata.json"] = startFiles["metadata.json"]
    /\ writers["model.onnx"] = {} /\ writers["metadata.json"] = {}
    /\ files["model.onnx"] \in {Absent, Stale}
    /\ files["metadata.json"] \in {Absent, Stale}

C2_Witness ==
    /\ script = "image" /\ status = "crashed" /\ err = "NameError"
    /\ startFiles["model.onnx"] = Stale
    /\ files["metadata.json"] = Stale

\* C3 as claimed: a script run a second time leaves the files, contents
\* included, exactly as its first run left them.
C3_RerunSameContents ==
    (Finished /\ prevScript = script) => (files = startFiles /\ dirs = startDirs)

\* The scripts that draw nothing from the random generator before they write.
Unseeded == {"mipro_create", "mipro_train"}

\* C3 amended: a script run a second time leaves the same set of files and
\* directories as its first run; a file it writes holds what this run
\* produced and nothing of the content before; and the contents are those of
\* the first run for every script but the two MIPROv2 scripts, whose exported
\* weights are drawn afresh in each run.
C3_RerunOverwrites ==
    (Finished /\ prevScript = script) =>
        /\ Existing(files) = Existing(startFiles)
        /\ dirs = startDirs
        /\ script \notin Unseeded => files = startFiles
        /\ \A p \in Paths :
              files[p] # startFiles[p] =>
                  files[p] = Output(script, p, weights, n_features)

C3_Witness ==
    /\ status = "exited" /\ prevScript = script
    /\ NonEmpty(files[OutputPath(script)])
    /\ startFiles[OutputPath(script)].kind = "onnx"

RECURSIVE LinesUpTo(_)
\* What the statements 1..i of this run printed, had only its print statements
\* that ran to their end printed.
LinesUpTo(i) ==
    IF i = 0 THEN <<>>
    ELSE LinesUpTo(i - 1) \o
         (IF log[i].ok /\ Program(script)[i].kind = "print"
          THEN <<Program(script)[i].tag>> ELSE <<>>)

\* C4: no script handles a failure: a statement that raises ends the run at
\* that statement, the error stays uncaught, no later statement runs (no
\* later file is written, nothing more is printed), and no statement is
\* tried again.
C4_ErrorsPropagate ==
    status # "idle" =>
        /\ \A i \in 1..Len(log) : log[i].pc = i /\ (i < Len(log) => log[i].ok)
        /\ Len(log) <= Len(Program(script))
        /\ (status = "crashed") <=> (log # <<>> /\ ~log[Len(log)].ok)
        /\ status = "crashed" => (pc = Len(log) /\ err # "none")
        /\ status # "crashed" => (pc = Len(log) + 1 /\ err = "none")
        /\ status = "exited" => Len(log) = Len(Program(script))
        /\ \A p \in Paths :
              files[p] # startFiles[p] =>
                  \E i \in 1..Len(log) : /\ Program(script)[i].kind = "write"
                                         /\ Program(script)[i].path = p
        /\ dirs # startDirs =>
              \E i \in 1..Len(log) : Program(script)[i].kind = "mkdir" /\ log[i].ok
        /\ stdout = LinesUpTo(Len(log))

C4_Witness ==
    /\ script = "mipro_train" /\ status = "crashed" /\ err = "LibraryError"
    /\ Len(log) = 5 /\ pc = 5
    /\ stdout = <<"Starting training...", "Epoch 1/10">>
    /\ files = startFiles

\* C5: two distinct scripts run in one working directory never write the same
\* file: every path has at most one script writing it.
C5_DisjointWrites ==
    \A p \in Paths : Cardinality(writers[p]) <= 1

\* Strings the saved text graph is run on.
SampleInputs == {<<>>, <<"a">>, <<"h", "i">>}

\* C7: the graph create_text_model saves maps every input string to that
\* string with a fixed string of the graph before or after it, never to the
\* input itself.
C7_GraphAddsFixedString ==
    \A p \in Paths :
        (files[p].kind = "onnx" /\ files[p].model = text_graph.name) =>
            \A s \in SampleInputs :
                LET g == [text_graph EXCEPT !.nodes = files[p].nodes]
                    out == RunGraph(g, <<s>>)
                IN  /\ out # <<s>>
                    /\ \E c \in GraphConstants(g) :
                          out = <<s \o c[1]>> \/ out = <<c[1] \o s>>

\* The maximal runs of word characters of s, read off the text itself.
Words(s) ==
    UNION {{SubSeq(s, i, j) : j \in {k \in i..Len(s) :
                /\ \A m \in i..k : IsWordChar(s[m])
                /\ (i = 1 \/ ~IsWordChar(s[i - 1]))
                /\ (k = Len(s) \/ ~IsWordChar(s[k + 1]))}} : i \in 1..Len(s)}

\* The distinct lower-cased tokens of two or more characters in the six texts.
ExpectedTerms ==
    {w \in UNION {Words(Lower(texts[d])) : d \in 1..Len(texts)} : Len(w) >= 2}

\* C8: in the tabular script the exported graph's input width equals the
\* number of newline-separated names in models/feature_names.txt, the names
\* being the distinct lower-cased tokens of two or more characters of the six
\* texts (at most 100), in sorted order; models/ and both files are touched
\* only after fit and convert_sklearn succeeded; and feature_names.txt is
\* written only after text-classifier.onnx was.
C8_GraphAndNamesConsistent ==
    script = "tabular" =>
        LET model == files["models/text-classifier.onnx"]
            names == Split("\n", files["models/feature_names.txt"].data)
        IN  /\ RanTag("save_names") =>
                  /\ model.kind = "onnx" /\ model.width = Len(names)
                  /\ n_features = Len(names)
                  /\ Range(names) = ExpectedTerms
                  /\ Len(names) = Cardinality(ExpectedTerms)
                  /\ Len(names) <= max_features
                  /\ \A i \in 1..(Len(names) - 1) : LexLess(names[i], names[i + 1])
            /\ \A i \in 1..Len(log) :
                  Program(script)[i].kind \in {"mkdir", "write"} => (Ran(1) /\ Ran(3))
            /\ (\/ dirs # startDirs
                \/ model # startFiles["models/text-classifier.onnx"]
                \/ files["models/feature_names.txt"] # startFiles["models/feature_names.txt"])
                  => (RanTag("fit") /\ RanTag("convert"))
            /\ \A i \in 1..Len(log) :
                  Program(script)[i].tag = "save_names" => RanTag("save_model")
            /\ files["models/feature_names.txt"] # startFiles["models/feature_names.txt"]
                  => RanTag("save_model")

C8_Witness ==
    /\ script = "tabular" /\ status = "exited"
    /\ files["models/text-classifier.onnx"].width = 11
    /\ startFiles["models/feature_names.txt"] = Absent
    /\ Len(Split("\n", files["models/feature_names.txt"].data)) = 11


(***************************************************************************)
(* train-model.py: TextDataset.  A string is a sequence of character codes *)
(* (ord); a number is the exact quotient num/den in lowest terms, which is *)
(* what a float holds up to rounding.                                      *)
(***************************************************************************)
\* longest text / context drawn
MaxStrLen == 1
\* most (text, context) pairs in a dataset
MaxItems == 2

\* "Context: "
ContextPrefix == <<67, 111, 110, 116, 101, 120, 116, 58, 32>>
\* "\nInput: "
InputPrefix == <<10, 73, 110, 112, 117, 116, 58, 32>>

\* The characters texts and contexts are drawn from: "a", and chr(255).
TextChars == {97}
ContextChars == {255}
StrsOver(C) == UNION {[1..k -> C] : k \in 0..MaxStrLen}

\* The max_length values tried: 128 is the default.
MaxLengths == {0, 9, 17, 18, 20, 128}

RECURSIVE Gcd(_, _)
Gcd(a, b) == IF b = 0 THEN a ELSE Gcd(b, a % b)

\* A Python number: ty "int" or "float", the value num/den in lowest terms.
Number(ty, a, b) == LET g == Gcd(a, b) IN [ty |-> ty, num |-> a \div g, den |-> b \div g]

\* f"Context: {context}\nInput: {text}"
Combined(text, context) == ContextPrefix \o context \o InputPrefix \o text

\* Mutant of SliceTo: the string is not cut.
SliceTo_whole(s, n) == s

\* s[:n] of Python, n of either sign.
SliceTo(s, n) ==
    IF n >= 0 THEN SubSeq(s, 1, Min(n, Len(s)))
    ELSE SubSeq(s, 1, Max(0, Len(s) + n))

\* [0] * k of Python: empty for k <= 0.
Zeros(k) == [i \in 1..Max(k, 0) |-> Number("int", 0, 1)]

\* torch.tensor(values, dtype=torch.float32): ints and floats alike become floats.
Tensor(values) ==
    [i \in 1..Len(values) |-> Number("float32", values[i].num, values[i].den)]

\* TextDataset.__getitem__(idx), idx counted from 0: the pair (tokens, target).
GetItem(d, idx) ==
    LET text == d.texts[idx + 1]
        context == d.contexts[idx + 1]
        combined == Combined(text, context)
        cut == SliceTo(combined, d.max_length)
        quotients == [i \in 1..Len(cut) |-> Number("float", cut[i], 255)]
        tokens == quotients \o Zeros(d.max_length - Len(quotients))
        target == tokens
    IN  [tokens |-> Tensor(tokens), target |-> Tensor(target)]

\* TextDataset.__len__
DatasetLen(d) == Len(d.texts)

ScriptsAtRest ==
    /\ dirs = {} /\ files = NoFiles /\ script = "none" /\ pc = 0
    /\ status = "idle" /\ err = "none" /\ log = <<>> /\ stdout = <<>>
    /\ weights = 0 /\ dummy = 0 /\ n_features = 0 /\ runs = 0
    /\ prevScript = "none" /\ startDirs = {} /\ startFiles = NoFiles
    /\ writers = [p \in Paths |-> {}]

InitDataset ==
    /\ ScriptsAtRest
    /\ ds = [DsIdle EXCEPT !.pc = "new"]
    /\ tr = TrIdle

\* TextDataset(texts, contexts, max_length)
DsInit ==
    /\ ds.pc = "new"
    /\ \E n \in 0..MaxItems :
       \E ts \in [1..n -> StrsOver(TextChars)] :
       \E cs \in [1..n -> StrsOver(ContextChars)] :
       \E m \in MaxLengths :
          ds' = [ds EXCEPT !.pc = "ready", !.texts = ts, !.contexts = cs,
                           !.max_length = m]
    /\ UNCHANGED <<tr>>
    /\ UNCHANGED scriptVars

\* dataset[idx] for an index in range
DsGetItem ==
    /\ ds.pc \in {"ready", "got"}
    /\ \E idx \in 0..(DatasetLen(ds) - 1) :
          LET r == GetItem(ds, idx)
          IN  ds' = [ds EXCEPT !.pc = "got", !.idx = idx, !.tokens = r.tokens,
                               !.target = r.target]
    /\ UNCHANGED <<tr>>
    /\ UNCHANGED scriptVars

NextDataset == DsInit \/ DsGetItem

SpecDataset == InitDataset /\ [][NextDataset]_vars

\* C9: for every index in range and every text and context, __getitem__
\* returns (tokens, target), both of length max_length and equal element for
\* element; position i < min(len(combined), max_length) holds the code of
\* character i of "Context: {context}\nInput: {text}" divided by 255, and
\* every later position holds 0.
C9_GetItemShape ==
    ds.pc = "got" =>
        LET c == <<67, 111, 110, 116, 101, 120, 116, 58, 32>> \o ds.contexts[ds.idx + 1]
                   \o <<10, 73, 110, 112, 117, 116, 58, 32>> \o ds.texts[ds.idx + 1]
            k == IF Len(c) < ds.max_length THEN Len(c) ELSE ds.max_length
        IN  /\ Len(ds.tokens) = ds.max_length
            /\ Len(ds.target) = ds.max_length
            /\ \A i \in 1..ds.max_length :
                  /\ ds.target[i] = ds.tokens[i]
                  /\ ds.tokens[i].den > 0
                  /\ IF i <= k THEN ds.tokens[i].num * 255 = c[i] * ds.tokens[i].den
                     ELSE ds.tokens[i].num = 0

C9_Witness ==
    /\ ds.pc = "got" /\ ds.idx = 1 /\ ds.max_length = 18
    /\ ds.texts[2] = <<97>> /\ ds.contexts[2] = <<255>>
    /\ ds.tokens[10] = [ty |-> "float32", num |-> 1, den |-> 1]


(***************************************************************************)
(* train-model.py: train_model(train_data, epochs, batch_size).  The frame *)
(* of one call: tr.n is len(train_data); the examples are 1..n.            *)
(***************************************************************************)
\* most training pairs
MaxN == 3
\* most epochs
MaxEpochs == 2
\* largest batch size
MaxBatch == 3

\* The orders RandomSampler can draw for n examples.
Orders(n) == {f \in [1..n -> 1..n] : \A i \in 1..n : \E j \in 1..n : f[j] = i}

RECURSIVE Batches_drop_last(_, _)
\* Mutant of Batches: DataLoader(drop_last=True) leaves a short last batch out.
Batches_drop_last(order, b) ==
    IF Len(order) < b THEN <<>>
    ELSE <<SubSeq(order, 1, b)>> \o Batches_drop_last(SubSeq(order, b + 1, Len(order)), b)

RECURSIVE Batches(_, _)
\* DataLoader(dataset, batch_size=b, shuffle=True): the batches of one pass,
\* in order, the last one short when b does not divide the length.
Batches(order, b) ==
    IF order = <<>> THEN <<>>
    ELSE <<SubSeq(order, 1, Min(b, Len(order)))>>
            \o Batches(SubSeq(order, Min(b, Len(order)) + 1, Len(order)), b)

InitTrain ==
    /\ ScriptsAtRest
    /\ ds = DsIdle
    /\ tr = [TrIdle EXCEPT !.pc = "new"]

trainFrame == <<ds, dirs, files, script, pc, status, err, log, stdout, weights,
                dummy, n_features, runs, prevScript, startDirs, startFiles, writers>>

\* train_model(train_data, epochs, batch_size) is called
TrCall ==
    /\ tr.pc = "new"
    /\ \E n \in 0..MaxN, e \in 0..MaxEpochs, b \in 1..MaxBatch :
          tr' = [tr EXCEPT !.pc = "unpack", !.n = n, !.epochs = e, !.batch_size = b]
    /\ UNCHANGED trainFrame

\* texts, contexts = zip(*train_data); TextDataset; DataLoader
TrUnpack ==
    /\ tr.pc = "unpack"
    /\ tr.n > 0
    /\ tr' = [tr EXCEPT !.pc = "setup"]
    /\ UNCHANGED trainFrame

\* zip() of nothing yields nothing: the unpacking raises ValueError
TrUnpackEmpty ==
    /\ tr.pc = "unpack"
    /\ tr.n = 0
    /\ tr' = [tr EXCEPT !.pc = "raised"]
    /\ UNCHANGED trainFrame

\* model, criterion, optimizer; print("Starting training...")
TrSetup ==
    /\ tr.pc = "setup"
    /\ tr' = [tr EXCEPT !.pc = "epoch", !.model = TRUE, !.optimizer = TRUE,
                        !.printed = @ + 1]
    /\ UNCHANGED trainFrame

\* for epoch in range(epochs): total_loss = 0; iter(dataloader) shuffles
TrEpoch ==
    /\ tr.pc = "epoch"
    /\ tr.epoch < tr.epochs
    /\ \E order \in Orders(tr.n) :
          tr' = [tr EXCEPT !.pc = "batch", !.batches = Batches(order, tr.batch_size),
                           !.seen = [i \in 1..tr.n |-> 0]]
    /\ UNCHANGED trainFrame

\* for batch_x, batch_y in dataloader: the next batch is fetched
TrBatch ==
    /\ tr.pc = "batch"
    /\ tr.batches # <<>>
    /\ LET b == Head(tr.batches)
       IN  tr' = [tr EXCEPT !.pc = "zero_grad", !.batch = b, !.batches = Tail(@),
                            !.seen = [i \in 1..tr.n |->
                                        @[i] + Cardinality({j \in 1..Len(b) : b[j] = i})]]
    /\ UNCHANGED trainFrame

\* optimizer.zero_grad()
TrZeroGrad ==
    /\ tr.pc = "zero_grad"
    /\ tr' = [tr EXCEPT !.pc = "forward", !.ops = Append(@, "zero_grad")]
    /\ UNCHANGED trainFrame

\* output = model(batch_x); loss = criterion(output, batch_y)
TrForward ==
    /\ tr.pc = "forward"
    /\ tr' = [tr EXCEPT !.pc = "backward"]
    /\ UNCHANGED trainFrame

\* loss.backward()
TrBackward ==
    /\ tr.pc = "backward"
    /\ tr' = [tr EXCEPT !.pc = "step", !.ops = Append(@, "backward")]
    /\ UNCHANGED trainFrame

\* optimizer.step(); total_loss += loss.item()
TrStep ==
    /\ tr.pc = "step"
    /\ tr' = [tr EXCEPT !.pc = "batch", !.ops = Append(@, "step"), !.batch = <<>>]
    /\ UNCHANGED trainFrame

\* the dataloader is exhausted: avg_loss, print, next epoch
TrEpochEnd ==
    /\ tr.pc = "batch"
    /\ tr.batches = <<>>
    /\ tr' = [tr EXCEPT !.pc = "epoch", !.epoch = @ + 1, !.printed = @ + 1]
    /\ UNCHANGED trainFrame

\* range(epochs) is exhausted: print("Training completed"); return model
TrReturn ==
    /\ tr.pc = "epoch"
    /\ tr.epoch >= tr.epochs
    /\ tr' = [tr EXCEPT !.pc = "returned", !.printed = @ + 1]
    /\ UNCHANGED trainFrame

NextTrain ==
    \/ TrCall
    \/ TrUnpack
    \/ TrUnpackEmpty
    \/ TrSetup
    \/ TrEpoch
    \/ TrBatch
    \/ TrZeroGrad
    \/ TrForward
    \/ TrBackward
    \/ TrStep
    \/ TrEpochEnd
    \/ TrReturn

\* One thread runs the call, and every library call in it returns.
SpecTrain == InitTrain /\ [][NextTrain]_vars /\ WF_vars(NextTrain)

\* ceil(n / b)
CeilDiv(n, b) == (n + b - 1) \div b

\* optimizer.step() calls so far
StepsDone == Cardinality({i \in 1..Len(tr.ops) : tr.ops[i] = "step"})

C10_Safe ==
    LET total == tr.epochs * CeilDiv(tr.n, tr.batch_size)
    IN  /\ \A i \in 1..Len(tr.ops) :
              tr.ops[i] = <<"zero_grad", "backward", "step">>[((i - 1) % 3) + 1]
        /\ tr.pc \notin {"new", "idle"} => StepsDone <= total
        /\ tr.pc = "returned" =>
              /\ StepsDone = total /\ Len(tr.ops) = 3 * total
              /\ tr.epoch = tr.epochs /\ tr.n > 0 /\ tr.model
        /\ (tr.pc = "epoch" /\ tr.epoch > 0) => \A i \in 1..tr.n : tr.seen[i] = 1
        /\ tr.pc = "epoch" => StepsDone = tr.epoch * CeilDiv(tr.n, tr.batch_size)
        /\ tr.pc = "raised" => tr.n = 0
        /\ (tr.n = 0 /\ tr.pc # "new") =>
              /\ tr.pc \in {"unpack", "raised"}
              /\ ~tr.model /\ ~tr.optimizer /\ tr.ops = <<>> /\ tr.printed = 0

\* C10: on n > 0 pairs train_model terminates after exactly
\* epochs * ceil(n / batch_size) optimizer steps, each preceded by zero_grad
\* and backward in that order, visits every example once per epoch and
\* returns the model only after the last epoch; on no pairs it raises at the
\* unpacking, before a model or an optimizer exists.
C10_TrainTerminates == [](C10_Safe) /\ <>(tr.pc \in {"returned", "raised"})

C10_Witness ==
    /\ tr.pc = "returned" /\ tr.n = 3 /\ tr.batch_size = 2 /\ tr.epochs = 2
    /\ StepsDone = 4

====
